---- MODULE Spec2Model ----
(***************************************************************************)
(* tools/train_mlflow.py : main(args).                                     *)
(*                                                                         *)
(* main is one straight-line pipeline of calls into nanodet, torch,        *)
(* pytorch_lightning and mlflow.  The model keeps                          *)
(*   - the inputs of a run: the parsed arguments, the configuration that   *)
(*     load_config leaves in cfg, the checkpoint files on disk and which   *)
(*     external call (if any) raises on this run;                          *)
(*   - the position of main (pc), the exception that left main (exc);      *)
(*   - the local variables of main (local);                                *)
(*   - the ordered list of calls main has made, with their arguments.      *)
(* Objects returned by external calls are opaque records that remember     *)
(* the call and the arguments that produced them, so that "which object    *)
(* reached which call" is observable.                                      *)
(***************************************************************************)
EXTENDS Integers, Sequences, FiniteSets, TLC

VARIABLES args, cfg, failing, pc, exc, local, cudnn, calls

vars == <<args, cfg, failing, pc, exc, local, cudnn, calls>>

(***************************************************************************)
(* Bounds of the explored inputs.                                          *)
(***************************************************************************)
\* num_classes and len(class_names) each range over 0..MaxClasses
MaxClasses == 1
\* --seed ranges over None and 0..MaxSeed
MaxSeed == 0

(***************************************************************************)
(* Python values.                                                          *)
(***************************************************************************)
\* Python None
None == [type |-> "NoneType"]
\* a local variable of main that has not been assigned yet
Unbound == [type |-> "unbound"]
\* Python True, as passed for logger=
PyTrue == [type |-> "bool", value |-> TRUE]
\* an int value
PyInt(n) == [type |-> "int", value |-> n]
\* a path string, kept as its sequence of components
Path(parts) == [type |-> "str", parts |-> parts]
\* os.path.join(dir, name) for a relative name
PathJoin(dir, name) == Path(Append(dir.parts, name))

\* parse_args: default of --local_rank
DefaultLocalRank == -1
\* mlflow.utils.mlflow_tags.MLFLOW_RUN_NAME
MLFLOW_RUN_NAME == "mlflow.runName"
\* the key whose absence marks a legacy checkpoint
VersionKey == "pytorch-lightning_version"

(***************************************************************************)
(* Inputs.                                                                 *)
(***************************************************************************)
\* parse_args: the namespace argparse returns
ArgsSet ==
    [ config            : {"config.yml"},
      local_rank        : {DefaultLocalRank},
      seed              : {None} \cup {PyInt(s) : s \in 0..MaxSeed},
      use_mlflow        : BOOLEAN,
      mlflow_uri        : {"file:./ml-runs", "http://tracking:5000"},
      mlflow_run        : {"default", "run-a"},
      mlflow_experiment : {"default", "exp-b"} ]

\* the checkpoint files torch.load can read: path -> set of top-level keys
Files ==
    [ p \in {"old.pth", "new.ckpt"} |->
        IF p = "old.pth"
        THEN {"epoch", "iter", "state_dict", "optimizer"}
        ELSE {VersionKey, "epoch", "global_step", "state_dict"} ]

\* cfg.schedule: load_model and resume are optional keys
ScheduleOf(lm, rs) ==
    [total_epochs |-> 70, val_intervals |-> 10]
      @@ (IF lm = "absent" THEN <<>> ELSE "load_model" :> lm)
      @@ (IF rs = "absent" THEN <<>> ELSE "resume" :> (rs = "true"))

Schedules ==
    { ScheduleOf(lm, rs) : lm \in {"absent"} \cup DOMAIN Files,
                           rs \in {"absent", "true", "false"} }

ClassNames(n) == [i \in 1..n |-> "cls"]

\* the configuration object after load_config(cfg, args.config)
CfgSet ==
    { [ save_dir    |-> Path(<<"workspace", "nanodet_m">>),
        model       |-> [arch |-> [head |-> [num_classes |-> nc]]],
        class_names |-> ClassNames(nn),
        data        |-> [train |-> "data.train", val |-> "data.val"],
        device      |-> [gpu_ids |-> <<0>>, workers_per_gpu |-> 4,
                         batchsize_per_gpu |-> 32],
        schedule    |-> s,
        log         |-> [interval |-> 10] ]
      : nc \in 0..MaxClasses, nn \in 0..MaxClasses, s \in Schedules }

\* the external calls of main, in no particular order; one of them may raise.
\* logger.log, warnings.warn (default warning filter), ProgressBar and
\* int(args.local_rank) are taken to return normally.
ExternalSteps ==
    { "load_config", "mkdir", "Logger", "seed_everything",
      "build_dataset_train", "build_dataset_val", "build_evaluator",
      "DataLoader_train", "DataLoader_val", "TrainingTask",
      "torch.load", "convert_old_model", "load_model_weight",
      "resolve_tags", "MLFlowLogger", "Trainer", "fit" }

\* the locals of main before its first statement
InitLocal ==
    [ local_rank |-> Unbound, logger |-> Unbound,
      train_dataset |-> Unbound, val_dataset |-> Unbound,
      evaluator |-> Unbound,
      train_dataloader |-> Unbound, val_dataloader |-> Unbound,
      log_style |-> Unbound, task |-> Unbound, ckpt |-> Unbound,
      model_resume_path |-> Unbound,
      user_specified_tags |-> Unbound, tags |-> Unbound,
      mlf_logger |-> Unbound, used_logger |-> Unbound,
      bar_refresh |-> Unbound, trainer |-> Unbound ]

Init ==
    /\ args \in ArgsSet
    /\ cfg \in CfgSet
    /\ failing \in ExternalSteps \cup {"none"}
    /\ pc = "load_config"
    /\ exc = None
    /\ local = InitLocal
    /\ cudnn = [enabled |-> Unbound, benchmark |-> Unbound]
    /\ calls = <<>>

(***************************************************************************)
(* The conditions of main.                                                 *)
(***************************************************************************)
\* variant: "<" written for "!="
ClassCountMismatch_lt(c) ==
    c.model.arch.head.num_classes < Len(c.class_names)
\* line 51: cfg.model.arch.head.num_classes != len(cfg.class_names)
ClassCountMismatch(c) ==
    c.model.arch.head.num_classes # Len(c.class_names)

\* variant: "if args.seed:", which skips --seed 0
SeedGiven_truthy(a) == a.seed # None /\ a.seed.value # 0
\* line 60: args.seed is not None
SeedGiven(a) == a.seed # None

\* variant: the two styles exchanged
LogStyle_swapped(a) == IF a.use_mlflow THEN "NanoDet" ELSE "Lightning"
\* lines 79-82
LogStyle(a) == IF a.use_mlflow THEN "Lightning" ELSE "NanoDet"

\* variant: the load_model entry is ignored
HasLoadModel_never(c) == FALSE
\* line 85: 'load_model' in cfg.schedule
HasLoadModel(c) == "load_model" \in DOMAIN c.schedule

\* variants: the version key is not looked at
IsLegacy_never(ck) == FALSE
IsLegacy_always(ck) == TRUE
\* line 87: 'pytorch-lightning_version' not in ckpt
IsLegacy(ck) == VersionKey \notin ck.keys

\* line 95
ModelResumePath(c) ==
    IF "resume" \in DOMAIN c.schedule
    THEN PathJoin(c.save_dir, "model_last.ckpt")
    ELSE None

\* variant: "if args.mlflow_uri:", true for every default
TrackingRequested_uri(a) == a.mlflow_uri # ""
\* line 99: if args.use_mlflow
TrackingRequested(a) == a.use_mlflow

\* variant: the experiment name stored as run name
UserSpecifiedTags_experiment(a) == MLFLOW_RUN_NAME :> a.mlflow_experiment
\* lines 100-101
UserSpecifiedTags(a) == MLFLOW_RUN_NAME :> a.mlflow_run

(***************************************************************************)
(* Control flow.                                                           *)
(***************************************************************************)
\* variant: the exception is caught and main goes on
Propagate_swallow(step, next) == pc' = next /\ exc' = exc
\* an exception raised by a call leaves main: there is no try in main
Propagate(step, next) ==
    /\ pc' = "raised"
    /\ exc' = [type |-> "Exception", from |-> step]

Call(step, fn, a) == [step |-> step, fn |-> fn, args |-> a]
Log(logger, msg) == Call("logger.log", "logger.log", [self |-> logger, msg |-> msg])

\* one external call of main: the logging before it, the call itself,
\* and, when it returns, the assignments and logging that follow it.
\* before: the locals once the assignments that precede the call are made
\* (they stay bound when the call raises); newlocal: the locals once the
\* call has returned and its result is assigned
StepFrom(step, pre, call, post, next, before, newlocal) ==
    /\ pc = step
    /\ IF failing = step
       THEN /\ calls' = calls \o pre \o <<call>>
            /\ Propagate(step, next)
            /\ local' = before
       ELSE /\ calls' = calls \o pre \o <<call>> \o post
            /\ pc' = next
            /\ exc' = exc
            /\ local' = newlocal
    /\ UNCHANGED <<args, cfg, failing, cudnn>>

\* a call with no assignment before it
Step(step, pre, call, post, next, newlocal) ==
    StepFrom(step, pre, call, post, next, local, newlocal)

(***************************************************************************)
(* Where main goes after each of its conditionals.                         *)
(***************************************************************************)
\* lines 60-64
AfterLogger(a) ==
    IF SeedGiven(a) THEN "seed_everything" ELSE "build_dataset_train"
\* lines 85-95
AfterTask(c) == IF HasLoadModel(c) THEN "torch.load" ELSE "resume_path"
\* lines 87-92
AfterTorchLoad(ck) ==
    IF IsLegacy(ck) THEN "convert_old_model" ELSE "load_model_weight"
\* lines 99-112
AfterResumePath(a) ==
    IF TrackingRequested(a) THEN "resolve_tags" ELSE "default_logger"

(***************************************************************************)
(* The statements of main, in source order.                                *)
(***************************************************************************)
\* line 50
LoadConfig ==
    Step("load_config", <<>>,
         Call("load_config", "load_config", [cfg |-> "cfg", path |-> args.config]),
         <<>>, "check", local)

\* lines 51-56
CheckNumClasses ==
    /\ pc = "check"
    /\ IF ClassCountMismatch(cfg)
       THEN /\ pc' = "raised"
            /\ exc' = [type |-> "ValueError", from |-> "check"]
            /\ UNCHANGED <<local, cudnn>>
       ELSE /\ pc' = "mkdir"
            /\ exc' = exc
            /\ local' = [local EXCEPT !.local_rank = args.local_rank]
            /\ cudnn' = [enabled |-> PyTrue, benchmark |-> PyTrue]
    /\ UNCHANGED <<args, cfg, failing, calls>>

\* line 57
Mkdir ==
    Step("mkdir", <<>>,
         Call("mkdir", "mkdir",
              [local_rank |-> local.local_rank, path |-> cfg.save_dir]),
         <<>>, "Logger", local)

\* line 58
MakeLogger ==
    Step("Logger", <<>>,
         Call("Logger", "Logger",
              [local_rank |-> local.local_rank, save_dir |-> cfg.save_dir]),
         <<>>, AfterLogger(args),
         [local EXCEPT !.logger =
             [type |-> "Logger", local_rank |-> local.local_rank,
              save_dir |-> cfg.save_dir]])

\* lines 60-62
SeedEverything ==
    Step("seed_everything",
         <<Log(local.logger, <<"Set random seed to {}", args.seed>>)>>,
         Call("seed_everything", "pl.seed_everything", [seed |-> args.seed]),
         <<>>, "build_dataset_train", local)

\* lines 64-65
BuildTrainDataset ==
    Step("build_dataset_train",
         <<Log(local.logger, <<"Setting up data...">>)>>,
         Call("build_dataset_train", "build_dataset",
              [cfg |-> cfg.data.train, mode |-> "train"]),
         <<>>, "build_dataset_val",
         [local EXCEPT !.train_dataset =
             [type |-> "Dataset", cfg |-> cfg.data.train, mode |-> "train"]])

\* line 66
BuildValDataset ==
    Step("build_dataset_val", <<>>,
         Call("build_dataset_val", "build_dataset",
              [cfg |-> cfg.data.val, mode |-> "test"]),
         <<>>, "build_evaluator",
         [local EXCEPT !.val_dataset =
             [type |-> "Dataset", cfg |-> cfg.data.val, mode |-> "test"]])

\* line 68
BuildEvaluator ==
    Step("build_evaluator", <<>>,
         Call("build_evaluator", "build_evaluator",
              [cfg |-> "cfg", dataset |-> local.val_dataset]),
         <<>>, "DataLoader_train",
         [local EXCEPT !.evaluator =
             [type |-> "Evaluator", dataset |-> local.val_dataset]])

\* the keyword arguments of one torch.utils.data.DataLoader call
LoaderArgs(dataset, shuffle, drop_last) ==
    [ dataset     |-> dataset,
      batch_size  |-> cfg.device.batchsize_per_gpu,
      shuffle     |-> shuffle,
      num_workers |-> cfg.device.workers_per_gpu,
      pin_memory  |-> TRUE,
      collate_fn  |-> "collate_function",
      drop_last   |-> drop_last ]

\* lines 70-72
MakeTrainLoader ==
    Step("DataLoader_train", <<>>,
         Call("DataLoader_train", "torch.utils.data.DataLoader",
              LoaderArgs(local.train_dataset, TRUE, TRUE)),
         <<>>, "DataLoader_val",
         [local EXCEPT !.train_dataloader =
             [type |-> "DataLoader",
              args |-> LoaderArgs(local.train_dataset, TRUE, TRUE)]])

\* lines 73-75
MakeValLoader ==
    Step("DataLoader_val", <<>>,
         Call("DataLoader_val", "torch.utils.data.DataLoader",
              LoaderArgs(local.val_dataset, FALSE, FALSE)),
         <<>>, "TrainingTask",
         [local EXCEPT !.val_dataloader =
             [type |-> "DataLoader",
              args |-> LoaderArgs(local.val_dataset, FALSE, FALSE)]])

\* lines 77-83
MakeTrainingTask ==
    StepFrom("TrainingTask",
         <<Log(local.logger, <<"Creating model...">>)>>,
         Call("TrainingTask", "TrainingTask",
              [cfg |-> "cfg", evaluator |-> local.evaluator,
               log_style |-> LogStyle(args)]),
         <<>>, AfterTask(cfg),
         [local EXCEPT !.log_style = LogStyle(args)],
         [local EXCEPT
             !.log_style = LogStyle(args),
             !.task = [type |-> "TrainingTask",
                       log_style |-> LogStyle(args),
                       model |-> [type |-> "Model", owner |-> "task"]]])

\* the object torch.load(path) returns
Loaded(path) == [by |-> "torch.load", path |-> path, keys |-> Files[path]]

\* line 86
TorchLoad ==
    /\ HasLoadModel(cfg)
    /\ Step("torch.load", <<>>,
            Call("torch.load", "torch.load", [f |-> cfg.schedule.load_model]),
            <<>>, AfterTorchLoad(Loaded(cfg.schedule.load_model)),
            [local EXCEPT !.ckpt = Loaded(cfg.schedule.load_model)])

\* lines 88-90
ConvertOldModel ==
    Step("convert_old_model",
         <<Call("warnings.warn", "warnings.warn",
                [message |->
                    "Warning! Old .pth checkpoint is deprecated. Convert the checkpoint with tools/convert_old_checkpoint.py "])>>,
         Call("convert_old_model", "convert_old_model", [ckpt |-> local.ckpt]),
         <<>>, "load_model_weight",
         [local EXCEPT !.ckpt = [by |-> "convert_old_model", arg |-> local.ckpt]])

\* lines 92-93
LoadModelWeight ==
    Step("load_model_weight", <<>>,
         Call("load_model_weight", "load_model_weight",
              [model |-> local.task.model, ckpt |-> local.ckpt,
               logger |-> local.logger]),
         <<Log(local.logger,
               <<"Loaded model weight from {}", cfg.schedule.load_model>>)>>,
         "resume_path", local)

\* line 95
SetResumePath ==
    /\ pc = "resume_path"
    /\ local' = [local EXCEPT !.model_resume_path = ModelResumePath(cfg)]
    /\ pc' = AfterResumePath(args)
    /\ UNCHANGED <<args, cfg, failing, exc, cudnn, calls>>

\* lines 100-102
ResolveTags ==
    StepFrom("resolve_tags", <<>>,
         Call("resolve_tags", "context_registry.resolve_tags",
              [tags |-> UserSpecifiedTags(args)]),
         <<>>, "MLFlowLogger",
         [local EXCEPT !.user_specified_tags = UserSpecifiedTags(args)],
         [local EXCEPT
             !.user_specified_tags = UserSpecifiedTags(args),
             !.tags = [by |-> "resolve_tags", arg |-> UserSpecifiedTags(args)]])

\* the keyword arguments of the MLFlowLogger call
MlfArgs ==
    [ experiment_name |-> args.mlflow_experiment,
      tags            |-> local.tags,
      tracking_uri    |-> args.mlflow_uri ]

\* lines 103-109
MakeMLFlowLogger ==
    Step("MLFlowLogger", <<>>,
         Call("MLFlowLogger", "MLFlowLogger", MlfArgs),
         <<>>, "Trainer",
         [local EXCEPT
             !.mlf_logger = [type |-> "MLFlowLogger", args |-> MlfArgs],
             !.used_logger = [type |-> "MLFlowLogger", args |-> MlfArgs],
             !.bar_refresh = 1])

\* lines 110-112
UseDefaultLogger ==
    /\ pc = "default_logger"
    /\ local' = [local EXCEPT !.used_logger = PyTrue, !.bar_refresh = 0]
    /\ pc' = "Trainer"
    /\ UNCHANGED <<args, cfg, failing, exc, cudnn, calls>>

\* the keyword arguments of the pl.Trainer call
TrainerArgs ==
    [ default_root_dir        |-> cfg.save_dir,
      max_epochs              |-> cfg.schedule.total_epochs,
      gpus                    |-> cfg.device.gpu_ids,
      check_val_every_n_epoch |-> cfg.schedule.val_intervals,
      accelerator             |-> "ddp",
      log_every_n_steps       |-> cfg.log.interval,
      num_sanity_val_steps    |-> 0,
      resume_from_checkpoint  |-> local.model_resume_path,
      callbacks               |-> <<[type |-> "ProgressBar",
                                     refresh_rate |-> local.bar_refresh]>>,
      benchmark               |-> TRUE,
      logger                  |-> local.used_logger ]

\* lines 114-125
MakeTrainer ==
    Step("Trainer",
         <<Call("ProgressBar", "ProgressBar",
                [refresh_rate |-> local.bar_refresh])>>,
         Call("Trainer", "pl.Trainer", TrainerArgs),
         <<>>, "fit",
         [local EXCEPT !.trainer = [type |-> "Trainer", args |-> TrainerArgs]])

\* line 128
Fit ==
    Step("fit", <<>>,
         Call("fit", "trainer.fit",
              [self |-> local.trainer, task |-> local.task,
               train_dataloader |-> local.train_dataloader,
               val_dataloader |-> local.val_dataloader]),
         <<>>, "done", local)

Next ==
    \/ LoadConfig
    \/ CheckNumClasses
    \/ Mkdir
    \/ MakeLogger
    \/ SeedEverything
    \/ BuildTrainDataset
    \/ BuildValDataset
    \/ BuildEvaluator
    \/ MakeTrainLoader
    \/ MakeValLoader
    \/ MakeTrainingTask
    \/ TorchLoad
    \/ ConvertOldModel
    \/ LoadModelWeight
    \/ SetResumePath
    \/ ResolveTags
    \/ MakeMLFlowLogger
    \/ UseDefaultLogger
    \/ MakeTrainer
    \/ Fit

Spec == Init /\ [][Next]_vars

(***************************************************************************)
(* Reading the list of calls.                                              *)
(***************************************************************************)
Called(s) == \E i \in DOMAIN calls : calls[i].step = s
IndexOf(s) == CHOOSE i \in DOMAIN calls : calls[i].step = s
ArgsOf(s) == calls[IndexOf(s)].args
CountOf(s) == Cardinality({i \in DOMAIN calls : calls[i].step = s})
Before(s, t) == Called(s) /\ Called(t) /\ IndexOf(s) < IndexOf(t)

\* the inputs of the run, read from the raw configuration and arguments
ClassesDiffer == cfg.model.arch.head.num_classes # Len(cfg.class_names)
LoadModelConfigured == "load_model" \in DOMAIN cfg.schedule
LegacyConfigured ==
    /\ LoadModelConfigured
    /\ "pytorch-lightning_version" \notin Files[cfg.schedule.load_model]
CurrentConfigured ==
    /\ LoadModelConfigured
    /\ "pytorch-lightning_version" \in Files[cfg.schedule.load_model]
\* the checkpoint object as torch.load returned it
AsLoaded ==
    [ by |-> "torch.load", path |-> cfg.schedule.load_model,
      keys |-> Files[cfg.schedule.load_model] ]
StepFailed == exc.type = "Exception"

(***************************************************************************)
(* C1: when num_classes differs from len(class_names), main raises         *)
(* ValueError right after load_config: no call other than load_config is   *)
(* ever made, cudnn is untouched, and main ends raised, with ValueError    *)
(* unless load_config itself raised.                                       *)
(***************************************************************************)
C1_MismatchFailsBeforeAllocation ==
    ClassesDiffer =>
        /\ \A i \in DOMAIN calls : calls[i].step = "load_config"
        /\ Len(calls) <= 1
        /\ pc \in {"load_config", "check", "raised"}
        /\ cudnn.enabled = Unbound /\ local = InitLocal
        /\ (pc = "raised" /\ failing # "load_config")
              => exc = [type |-> "ValueError", from |-> "check"]

C1_Witness ==
    /\ ClassesDiffer
    /\ cfg.model.arch.head.num_classes > Len(cfg.class_names)
    /\ pc = "raised"
    /\ exc.type = "ValueError"
    /\ Called("load_config")

(***************************************************************************)
(* C2: with a legacy checkpoint configured, load_model_weight is reached   *)
(* only after torch.load, the deprecation warning and convert_old_model,   *)
(* in that order; it receives the converted checkpoint, not the loaded     *)
(* one; and a run on which nothing raises goes on to pl.Trainer and        *)
(* trainer.fit and ends there.                                             *)
(***************************************************************************)
C2_LegacyIsConvertedThenProceeds ==
    LegacyConfigured =>
        /\ Called("load_model_weight") =>
              /\ Before("torch.load", "warnings.warn")
              /\ Before("warnings.warn", "convert_old_model")
              /\ Before("convert_old_model", "load_model_weight")
              /\ ArgsOf("convert_old_model").ckpt = AsLoaded
              /\ ArgsOf("load_model_weight").ckpt =
                    [by |-> "convert_old_model", arg |-> AsLoaded]
              /\ ArgsOf("load_model_weight").ckpt # AsLoaded
        /\ Called("Trainer") => Before("load_model_weight", "Trainer")
        /\ pc = "done" => Before("Trainer", "fit")
        /\ (~ClassesDiffer /\ failing = "none") =>
              /\ pc # "raised"
              /\ pc = "done" \/ ENABLED Next

C2_Witness ==
    /\ LegacyConfigured
    /\ pc = "done"
    /\ Called("warnings.warn")
    /\ Called("convert_old_model")
    /\ Called("fit")

(***************************************************************************)
(* C3: with a current-format checkpoint configured, convert_old_model is   *)
(* never called, no warning is emitted, and load_model_weight receives     *)
(* the checkpoint exactly as torch.load returned it.                       *)
(***************************************************************************)
C3_CurrentIsNotConverted ==
    CurrentConfigured =>
        /\ ~Called("convert_old_model")
        /\ ~Called("warnings.warn")
        /\ Called("load_model_weight") =>
              /\ Before("torch.load", "load_model_weight")
              /\ ArgsOf("load_model_weight").ckpt = AsLoaded
        /\ Called("Trainer") => Called("load_model_weight")

C3_Witness ==
    /\ CurrentConfigured
    /\ pc = "done"
    /\ Called("load_model_weight")

(***************************************************************************)
(* C4: without --use_mlflow neither resolve_tags nor MLFlowLogger is ever  *)
(* called, whatever the other mlflow arguments are, and pl.Trainer gets    *)
(* logger=True.                                                            *)
(***************************************************************************)
C4_NoTrackingLoggerWithoutFlag ==
    ~args.use_mlflow =>
        /\ ~Called("MLFlowLogger")
        /\ ~Called("resolve_tags")
        /\ local.mlf_logger = Unbound
        /\ Called("Trainer") =>
              ArgsOf("Trainer").logger = [type |-> "bool", value |-> TRUE]
        /\ pc = "done" => Called("Trainer")

C4_Witness ==
    /\ ~args.use_mlflow
    /\ args.mlflow_uri # "file:./ml-runs"
    /\ args.mlflow_run # "default"
    /\ args.mlflow_experiment # "default"
    /\ pc = "done"
    /\ Called("Trainer")

(***************************************************************************)
(* C5: with --use_mlflow the mapping passed to resolve_tags holds          *)
(* MLFLOW_RUN_NAME -> --mlflow_run; MLFlowLogger is constructed after      *)
(* resolve_tags, with the resolved tags, --mlflow_experiment as experiment *)
(* name and --mlflow_uri as tracking URI; and pl.Trainer gets that logger. *)
(***************************************************************************)
C5_RunNameTagSetBeforeLogger ==
    args.use_mlflow =>
        /\ Called("resolve_tags") =>
              /\ DOMAIN ArgsOf("resolve_tags").tags = {"mlflow.runName"}
              /\ ArgsOf("resolve_tags").tags["mlflow.runName"] = args.mlflow_run
        /\ Called("MLFlowLogger") =>
              /\ Before("resolve_tags", "MLFlowLogger")
              /\ ArgsOf("MLFlowLogger") =
                    [ experiment_name |-> args.mlflow_experiment,
                      tags |-> [by |-> "resolve_tags",
                                arg |-> ArgsOf("resolve_tags").tags],
                      tracking_uri |-> args.mlflow_uri ]
        /\ Called("Trainer") =>
              /\ Before("MLFlowLogger", "Trainer")
              /\ ArgsOf("Trainer").logger =
                    [type |-> "MLFlowLogger", args |-> ArgsOf("MLFlowLogger")]

C5_Witness ==
    /\ args.use_mlflow
    /\ args.mlflow_run = "run-a"
    /\ args.mlflow_experiment = "exp-b"
    /\ args.mlflow_uri = "http://tracking:5000"
    /\ Called("Trainer")

(***************************************************************************)
(* C6: pl.Trainer gets resume_from_checkpoint = save_dir/model_last.ckpt   *)
(* when the schedule requests resume, and None otherwise; a schedule       *)
(* whose resume entry is false does not request resume.                    *)
(***************************************************************************)
C6_ResumeOnlyWhenRequested ==
    Called("Trainer") =>
        ArgsOf("Trainer").resume_from_checkpoint =
            IF "resume" \in DOMAIN cfg.schedule /\ cfg.schedule["resume"]
            THEN [type |-> "str",
                  parts |-> cfg.save_dir.parts \o <<"model_last.ckpt">>]
            ELSE [type |-> "NoneType"]

(***************************************************************************)
(* C7: a call that raises is the last call main makes: main ends raised    *)
(* with that call's exception, nothing after it runs, no call is made      *)
(* twice, and trainer.fit is never called after an earlier failure.        *)
(***************************************************************************)
C7_FailurePropagates ==
    /\ \A i \in DOMAIN calls :
          calls[i].step = failing =>
              /\ i = Len(calls)
              /\ pc = "raised"
              /\ exc = [type |-> "Exception", from |-> failing]
    /\ \A i, j \in DOMAIN calls :
          (calls[i].step = calls[j].step /\ calls[i].step \in ExternalSteps)
              => i = j
    /\ (pc = "raised" /\ exc.type # "ValueError") =>
          /\ Len(calls) > 0
          /\ calls[Len(calls)].step = failing
    /\ (Called("fit") /\ failing # "fit") => ~Called(failing)
    /\ pc = "done" => ~Called(failing)

C7_Witness ==
    /\ failing = "torch.load"
    /\ Called("torch.load")
    /\ pc = "raised"
    /\ exc.from = "torch.load"

(***************************************************************************)
(* C8: the calls of main occur in one fixed order, each at most once; a    *)
(* run that completes has made every mandatory call and ends with the one  *)
(* trainer.fit call; configured weight loading precedes pl.Trainer and     *)
(* fit; seeding, when --seed is given, happens and precedes dataset and    *)
(* model construction.                                                     *)
(***************************************************************************)
PipelineOrder ==
    << "load_config", "mkdir", "Logger", "seed_everything",
       "build_dataset_train", "build_dataset_val", "build_evaluator",
       "DataLoader_train", "DataLoader_val", "TrainingTask",
       "torch.load", "convert_old_model", "load_model_weight",
       "resolve_tags", "MLFlowLogger", "Trainer", "fit" >>
Optional ==
    { "seed_everything", "torch.load", "convert_old_model",
      "load_model_weight", "resolve_tags", "MLFlowLogger" }
PipelineSteps == {PipelineOrder[k] : k \in DOMAIN PipelineOrder}
RankOf ==
    [s \in PipelineSteps |->
        CHOOSE k \in DOMAIN PipelineOrder : PipelineOrder[k] = s]
Ranked(i) == calls[i].step \in PipelineSteps

C8_FixedOrder ==
    /\ \A i, j \in DOMAIN calls :
          (Ranked(i) /\ Ranked(j) /\ i < j)
              => RankOf[calls[i].step] < RankOf[calls[j].step]
    /\ Called("mkdir") => ~ClassesDiffer
    /\ pc = "done" =>
          /\ \A k \in DOMAIN PipelineOrder :
                PipelineOrder[k] \notin Optional => Called(PipelineOrder[k])
          /\ calls[Len(calls)].step = "fit"
          /\ CountOf("fit") = 1
          /\ Called("seed_everything") <=> args.seed # [type |-> "NoneType"]
          /\ Called("load_model_weight") <=> LoadModelConfigured
          /\ Called("MLFlowLogger") <=> args.use_mlflow
    /\ (Called("seed_everything") /\ Called("build_dataset_train")) =>
          Before("seed_everything", "build_dataset_train")
    /\ (Called("load_model_weight") /\ Called("Trainer")) =>
          Before("load_model_weight", "Trainer")

C8_Witness ==
    /\ pc = "done"
    /\ \A k \in DOMAIN PipelineOrder : Called(PipelineOrder[k])
    /\ args.seed = [type |-> "int", value |-> 0]

(***************************************************************************)
(* C9: without a load_model entry torch.load, convert_old_model and        *)
(* load_model_weight are never called, no warning is emitted and a run on  *)
(* which nothing raises still reaches trainer.fit; with one,               *)
(* load_model_weight is called exactly once, on task.model, before the     *)
(* trainer is built.                                                       *)
(***************************************************************************)
C9_WeightsLoadedOnlyWhenConfigured ==
    /\ ~LoadModelConfigured =>
          /\ ~Called("torch.load")
          /\ ~Called("convert_old_model")
          /\ ~Called("load_model_weight")
          /\ ~Called("warnings.warn")
          /\ local.ckpt = Unbound
          /\ pc = "done" => Called("fit")
          /\ (~ClassesDiffer /\ failing \in {"none", "torch.load",
                    "convert_old_model", "load_model_weight"})
                => pc # "raised"
    /\ LoadModelConfigured =>
          /\ CountOf("load_model_weight") <= 1
          /\ Called("load_model_weight") =>
                ArgsOf("load_model_weight").model =
                    [type |-> "Model", owner |-> "task"]
          /\ Called("Trainer") => CountOf("load_model_weight") = 1

C9_Witness ==
    /\ LoadModelConfigured
    /\ pc = "done"
    /\ CountOf("load_model_weight") = 1
    /\ CountOf("torch.load") = 1

(***************************************************************************)
(* C10: once the trainer is constructed, the task's log_style is           *)
(* 'Lightning' exactly when the trainer's logger is an MLFlowLogger and    *)
(* 'NanoDet' exactly when it is True; the progress-bar refresh rate is 1   *)
(* with an MLFlowLogger and 0 otherwise.                                   *)
(***************************************************************************)
C10_BranchesAgree ==
    Called("Trainer") =>
        LET style == ArgsOf("TrainingTask").log_style
            lg == ArgsOf("Trainer").logger
            rate == ArgsOf("Trainer").callbacks[1].refresh_rate
        IN  /\ style \in {"Lightning", "NanoDet"}
            /\ style = "Lightning" <=> lg.type = "MLFlowLogger"
            /\ style = "NanoDet" <=> lg = [type |-> "bool", value |-> TRUE]
            /\ rate = (IF lg.type = "MLFlowLogger" THEN 1 ELSE 0)
            /\ ArgsOf("ProgressBar").refresh_rate = rate

C10_Witness ==
    /\ Called("Trainer")
    /\ ArgsOf("TrainingTask").log_style = "Lightning"
    /\ ArgsOf("Trainer").logger.type = "MLFlowLogger"

====
